---- MODULE Spec2Model ----
(***************************************************************************)
(* The notes REST API of this repository as a state machine.               *)
(*                                                                         *)
(* The repository holds two entry points.  src/index.js is a complete      *)
(* server: it declares its own schema, connects to notesDB and serves      *)
(* /notes.  server/app.js (src/unnamed/part_000, lines 1-29) mounts the    *)
(* router of src/routes/notes.js under /api/notes; the Note model that     *)
(* router imports is the one module of the repository that exports a Note  *)
(* model, src/note.model.js.  A behaviour of the model is one run of one   *)
(* of the two processes; `app` says which.                                 *)
(*                                                                         *)
(* Mongoose is modelled as documented for versions 6 and later: keys whose *)
(* value is undefined are removed from an update, setters (trim) run on    *)
(* documents and on updates, update validators run on the paths an update  *)
(* sets, a malformed _id fails the cast of the filter, and paths that are  *)
(* not in a strict schema are dropped from documents and updates.  The     *)
(* default of strictQuery differs between 6 (true) and 7+ (false), so it   *)
(* is a choice made in Init.  Operations issued before the connection is   *)
(* up are buffered: they take effect once the connection has settled.      *)
(* Time is logical: the timestamps of { timestamps: true } are the number  *)
(* of the request that wrote them.                                         *)
(*                                                                         *)
(* Text is a sequence of one-character strings, so that trimming is        *)
(* computed.  A request body is a record that has a key exactly when the   *)
(* JSON body carries it.  The JSON values true, false and null of the      *)
(* archived flag are the strings "true", "false" and "null".               *)
(***************************************************************************)
EXTENDS Integers, Sequences, FiniteSets, TLC

\* Number of requests one run answers.
MaxRequests == 3

VARIABLES
  app,          \* "index" (src/index.js) or "router" (app.js + routes/notes.js)
  env,          \* process.env.NODE_ENV
  strictQuery,  \* mongoose's strictQuery setting
  pc,           \* startup position: connecting, connected, ready, failed
  store,        \* the notes collection, in insertion order
  nextId,       \* next ObjectId to hand out
  op,           \* the operation of the last answered request
  status,       \* its HTTP status
  resp,         \* the notes of its JSON body (<<>> for an error or a message)
  req,          \* its request body, kept when the answer is 200 or 201
  created,      \* ids whose create was answered 201
  deleted,      \* ids whose delete was answered 200
  served,       \* number of requests answered so far
  hist          \* the note as it was before the archive and the unarchive just answered

vars == <<app, env, strictQuery, pc, store, nextId, op, status, resp, req,
          created, deleted, served, hist>>

----------------------------------------------------------------------------
(* Values *)

Whitespace == {" "}

Categories == {"Work", "Ideas", "Shopping", "Personal"}

TitleInputs == {<<"t">>}
ContentInputs == {<<>>, <<" ">>, <<"a">>, <<" ", "b">>}
CategoryInputs == {"Work", "Bogus"}
ArchivedInputs == {"true", "false", "null"}

Opt(S) == {{}} \cup {{x} : x \in S}

Field(k, X) == [kk \in {k : x \in X} |-> CHOOSE x \in X : TRUE]

Bodies ==
  {Field("title", T) @@ Field("content", C) @@ Field("category", G) :
     T \in Opt(TitleInputs), C \in Opt(ContentInputs), G \in Opt(CategoryInputs)}

ArchiveBodies == {Field("archived", A) : A \in Opt(ArchivedInputs)}

Has(r, k) == k \in DOMAIN r

----------------------------------------------------------------------------
(* Mongoose *)

RECURSIVE LTrim(_)
LTrim(s) == IF s # <<>> /\ Head(s) \in Whitespace THEN LTrim(Tail(s)) ELSE s

RECURSIVE RTrim(_)
RTrim(s) ==
  IF s # <<>> /\ s[Len(s)] \in Whitespace THEN RTrim(SubSeq(s, 1, Len(s) - 1)) ELSE s

Trim(s) == RTrim(LTrim(s))

\* ObjectIds are the positive integers; 0 stands for a path parameter that is
\* not an ObjectId.  A request names a malformed id, an id handed out so far,
\* or the one to be handed out next.
IsObjectId(id) == id > 0

IdInputs == 0..nextId

Ids(coll) == {coll[i].id : i \in 1..Len(coll)}

FindById(coll, id) == CHOOSE i \in 1..Len(coll) : coll[i].id = id

\* $set: the keys of upd replace the document's, the others stay.
ApplySet(n, upd) ==
  [k \in DOMAIN n \cup DOMAIN upd |-> IF k \in DOMAIN upd THEN upd[k] ELSE n[k]]

Remove(coll, id) == SelectSeq(coll, LAMBDA n : n.id # id)

Perms(s) ==
  {[i \in 1..Len(s) |-> s[p[i]]] : p \in Permutations(1..Len(s))}

SortByCreatedAtDesc(s) ==
  CHOOSE r \in Perms(s) :
    \A i \in 1..Len(r), j \in 1..Len(r) : i < j => r[i].createdAt >= r[j].createdAt

----------------------------------------------------------------------------
Init ==
  /\ app \in {"index", "router"}
  /\ env \in {"development", "production"}
  /\ strictQuery \in BOOLEAN
  /\ (app = "index" => strictQuery = FALSE)
  /\ (app = "router" => env = "production")
  /\ pc = "connecting"
  /\ store = <<>>
  /\ nextId = 1
  /\ op = "none"
  /\ status = 0
  /\ resp = <<>>
  /\ req = <<>>
  /\ created = {}
  /\ deleted = {}
  /\ served = 0
  /\ hist = <<>>

conf == <<app, env, strictQuery>>

\* The store has settled: buffered operations run or fail.
Settled == pc # "connecting"

StoreFails == pc = "failed"

\* The run answers another request.
Accepting == served < MaxRequests

\* The time at which the request being answered writes.
Now == served + 1

\* { timestamps: true } on an insert and on an update.
StampInsert(doc) == ApplySet(doc, [createdAt |-> Now, updatedAt |-> Now])

StampUpdate(upd) == ApplySet(upd, [updatedAt |-> Now])

Respond(o, s, r, b) ==
  /\ served' = served + 1
  /\ op' = o
  /\ status' = s
  /\ resp' = r
  /\ req' = IF s \in {200, 201} THEN b ELSE <<>>

(* Startup *)

\* mongoose.connect resolves.  Its then-callback only logs, except in index.js
\* under NODE_ENV=development, where the cleanup is still to run.
Connect ==
  /\ pc = "connecting"
  /\ pc' = IF app = "index" /\ env = "development" THEN "connected" ELSE "ready"
  /\ UNCHANGED <<conf, store, nextId, op, status, resp, req, created, deleted, served, hist>>

\* mongoose.connect rejects: the catch logs and the process keeps listening.
ConnectFail ==
  /\ pc = "connecting"
  /\ pc' = "failed"
  /\ UNCHANGED <<conf, store, nextId, op, status, resp, req, created, deleted, served, hist>>

\* index.js, development: await Note.deleteMany({}) in the then-callback.
StartupCleanup ==
  /\ app = "index"
  /\ env = "development"
  /\ pc = "connected"
  /\ store' = <<>>
  /\ pc' = "ready"
  /\ hist' = <<>>
  /\ UNCHANGED <<conf, nextId, op, status, resp, req, created, deleted, served>>

----------------------------------------------------------------------------
(* src/index.js *)

SchemaDefaults == [title |-> <<>>, category |-> "Personal", archived |-> "false"]

\* Setters of noteSchema: title and content are trimmed.
CastIndex(obj) ==
  [k \in DOMAIN obj |-> IF k \in {"title", "content"} THEN Trim(obj[k]) ELSE obj[k]]

\* new Note(obj)
NoteDoc(obj) == ApplySet(SchemaDefaults, CastIndex(obj))

\* Document validation: content required, category in the enum.
ValidIndex(doc) ==
  /\ Has(doc, "content") /\ doc.content # <<>>
  /\ doc.category \in Categories

\* Update validators (runValidators: true) on the paths the update sets.
UpdateValidIndex(upd) ==
  /\ Has(upd, "content") => upd.content # <<>>
  /\ Has(upd, "category") => upd.category \in Categories

\* !content
ContentMissing(b) == ~Has(b, "content") \/ b.content = <<>>

\* title || ''
TitleOrEmpty(b) == IF Has(b, "title") /\ b.title # <<>> THEN b.title ELSE <<>>

\* category || 'Personal'
CategoryOrPersonal(b) == IF Has(b, "category") THEN b.category ELSE "Personal"

PostNotes(b) ==
  /\ app = "index"
  /\ Accepting
  /\ IF ContentMissing(b)
       THEN /\ Respond("create", 400, <<>>, b)
            /\ UNCHANGED <<store, nextId, created>>
       ELSE /\ Settled
            /\ LET doc == NoteDoc([title |-> TitleOrEmpty(b), content |-> b.content,
                                   category |-> CategoryOrPersonal(b)])
                   saved == ApplySet(StampInsert(doc), [id |-> nextId])
               IN  IF ~ValidIndex(doc) \/ StoreFails
                     THEN /\ Respond("create", 500, <<>>, b)
                          /\ UNCHANGED <<store, nextId, created>>
                     ELSE /\ store' = Append(store, saved)
                          /\ nextId' = nextId + 1
                          /\ created' = created \cup {nextId}
                          /\ Respond("create", 201, <<saved>>, b)
  /\ hist' = <<>>
  /\ UNCHANGED <<conf, pc, deleted>>

\* Note.find({archived: v}) without a sort: the order is the store's choice.
FindArchived(coll, v) == SelectSeq(coll, LAMBDA n : n.archived = v)

GetList(o, v) ==
  /\ app = "index"
  /\ Accepting
  /\ Settled
  /\ IF StoreFails
       THEN Respond(o, 500, <<>>, <<>>)
       ELSE \E r \in Perms(FindArchived(store, v)) : Respond(o, 200, r, <<>>)
  /\ hist' = <<>>
  /\ UNCHANGED <<conf, pc, store, nextId, created, deleted>>

GetNotes == GetList("listActive", "false")

GetArchived == GetList("listArchived", "true")

\* As Updated, with the update applied to every document of the collection.
UpdatedEveryDocument(coll, id, upd) == [i \in 1..Len(coll) |-> ApplySet(coll[i], upd)]

\* As Updated, with the document replaced: paths the update leaves out fall
\* back to the schema defaults.
UpdatedOverwrite(coll, id, upd) ==
  [coll EXCEPT ![FindById(coll, id)] =
     ApplySet(ApplySet(coll[FindById(coll, id)], SchemaDefaults), upd)]

\* Note.findByIdAndUpdate(id, upd, {new: true}) on a stored id.
Updated(coll, id, upd) ==
  [coll EXCEPT ![FindById(coll, id)] = ApplySet(coll[FindById(coll, id)], upd)]

PutNote(id, b) ==
  /\ app = "index"
  /\ Accepting
  /\ Settled
  /\ LET upd == CastIndex(b)
     IN  IF ~IsObjectId(id) \/ ~UpdateValidIndex(upd) \/ StoreFails
           THEN /\ Respond("update", 500, <<>>, b)
                /\ UNCHANGED store
           ELSE IF id \notin Ids(store)
                  THEN /\ Respond("update", 404, <<>>, b)
                       /\ UNCHANGED store
                  ELSE /\ store' = Updated(store, id, StampUpdate(upd))
                       /\ Respond("update", 200, <<store'[FindById(store, id)]>>, b)
  /\ hist' = <<>>
  /\ UNCHANGED <<conf, pc, nextId, created, deleted>>

PutArchive(id, b) ==
  /\ app = "index"
  /\ Accepting
  /\ Settled
  /\ IF ~IsObjectId(id) \/ StoreFails
       THEN /\ Respond("archive", 500, <<>>, b)
            /\ UNCHANGED store
            /\ hist' = <<>>
       ELSE IF id \notin Ids(store)
              THEN /\ Respond("archive", 404, <<>>, b)
                   /\ UNCHANGED store
                   /\ hist' = <<>>
              ELSE /\ store' = Updated(store, id, StampUpdate(b))
                   /\ Respond("archive", 200, <<store'[FindById(store, id)]>>, b)
                   /\ LET before == store[FindById(store, id)]
                      IN  hist' =
                            IF Has(b, "archived") /\ b.archived = "true"
                              THEN <<before>>
                              ELSE IF /\ Has(b, "archived") /\ b.archived = "false"
                                      /\ Len(hist) = 1 /\ hist[1].id = id
                                     THEN <<hist[1], before>>
                                     ELSE <<>>
  /\ UNCHANGED <<conf, pc, nextId, created, deleted>>

DeleteNote(id) ==
  /\ app = "index"
  /\ Accepting
  /\ Settled
  /\ IF ~IsObjectId(id) \/ StoreFails
       THEN /\ Respond("delete", 500, <<>>, <<>>)
            /\ UNCHANGED <<store, deleted>>
       ELSE IF id \notin Ids(store)
              THEN /\ Respond("delete", 404, <<>>, <<>>)
                   /\ UNCHANGED <<store, deleted>>
              ELSE /\ store' = Remove(store, id)
                   /\ deleted' = deleted \cup {id}
                   /\ Respond("delete", 200, <<>>, <<>>)
  /\ hist' = <<>>
  /\ UNCHANGED <<conf, pc, nextId, created>>

----------------------------------------------------------------------------
(* src/routes/notes.js over the model of src/note.model.js *)

\* NoteSchema declares title and content, both plain strings.
RouterSchemaPaths == {"title", "content"}

\* A strict schema keeps the declared paths only; there are no setters.
CastRouter(obj) == [k \in DOMAIN obj \cap RouterSchemaPaths |-> obj[k]]

\* Note.find({isArchived: v}): isArchived is not a path of NoteSchema, so the
\* condition is dropped under strictQuery and sent as it is otherwise.
FindIsArchived(coll, v) ==
  IF strictQuery
    THEN coll
    ELSE SelectSeq(coll, LAMBDA n : Has(n, "isArchived") /\ n.isArchived = v)

RouterGetList(o, v) ==
  /\ app = "router"
  /\ Accepting
  /\ Settled
  /\ IF StoreFails
       THEN Respond(o, 500, <<>>, <<>>)
       ELSE Respond(o, 200, SortByCreatedAtDesc(FindIsArchived(store, v)), <<>>)
  /\ hist' = <<>>
  /\ UNCHANGED <<conf, pc, store, nextId, created, deleted>>

RouterGet == RouterGetList("listActive", "false")

RouterGetArchived == RouterGetList("listArchived", "true")

RouterPost(b) ==
  /\ app = "router"
  /\ Accepting
  /\ Settled
  /\ LET saved == ApplySet(StampInsert(CastRouter(b)), [id |-> nextId])
     IN  IF StoreFails
           THEN /\ Respond("create", 400, <<>>, b)
                /\ UNCHANGED <<store, nextId, created>>
           ELSE /\ store' = Append(store, saved)
                /\ nextId' = nextId + 1
                /\ created' = created \cup {nextId}
                /\ Respond("create", 201, <<saved>>, b)
  /\ hist' = <<>>
  /\ UNCHANGED <<conf, pc, deleted>>

RouterPatch(id, b) ==
  /\ app = "router"
  /\ Accepting
  /\ Settled
  /\ IF ~IsObjectId(id) \/ StoreFails
       THEN /\ Respond("update", 400, <<>>, b)
            /\ UNCHANGED store
       ELSE IF id \notin Ids(store)
              THEN /\ Respond("update", 404, <<>>, b)
                   /\ UNCHANGED store
              ELSE /\ store' = Updated(store, id, StampUpdate(CastRouter(b)))
                   /\ Respond("update", 200, <<store'[FindById(store, id)]>>, b)
  /\ hist' = <<>>
  /\ UNCHANGED <<conf, pc, nextId, created, deleted>>

RouterDelete(id) ==
  /\ app = "router"
  /\ Accepting
  /\ Settled
  /\ IF ~IsObjectId(id) \/ StoreFails
       THEN /\ Respond("delete", 500, <<>>, <<>>)
            /\ UNCHANGED <<store, deleted>>
       ELSE IF id \notin Ids(store)
              THEN /\ Respond("delete", 404, <<>>, <<>>)
                   /\ UNCHANGED <<store, deleted>>
              ELSE /\ store' = Remove(store, id)
                   /\ deleted' = deleted \cup {id}
                   /\ Respond("delete", 200, <<>>, <<>>)
  /\ hist' = <<>>
  /\ UNCHANGED <<conf, pc, nextId, created>>

----------------------------------------------------------------------------
Next ==
  \/ Connect
  \/ ConnectFail
  \/ StartupCleanup
  \/ \E b \in Bodies : PostNotes(b)
  \/ GetNotes
  \/ GetArchived
  \/ \E id \in IdInputs, b \in Bodies : PutNote(id, b)
  \/ \E id \in IdInputs, b \in ArchiveBodies : PutArchive(id, b)
  \/ \E id \in IdInputs : DeleteNote(id)
  \/ \E b \in Bodies : RouterPost(b)
  \/ RouterGet
  \/ RouterGetArchived
  \/ \E id \in IdInputs, b \in Bodies : RouterPatch(id, b)
  \/ \E id \in IdInputs : RouterDelete(id)

Spec == Init /\ [][Next]_vars

\* A run of src/index.js alone.
InitIndex == Init /\ app = "index"

NextIndex ==
  \/ Connect
  \/ ConnectFail
  \/ StartupCleanup
  \/ \E b \in Bodies : PostNotes(b)
  \/ GetNotes
  \/ GetArchived
  \/ \E id \in IdInputs, b \in Bodies : PutNote(id, b)
  \/ \E id \in IdInputs, b \in ArchiveBodies : PutArchive(id, b)
  \/ \E id \in IdInputs : DeleteNote(id)

SpecIndex == InitIndex /\ [][NextIndex]_vars

\* A run of server/app.js with the router alone.
InitRouter == Init /\ app = "router"

NextRouter ==
  \/ Connect
  \/ ConnectFail
  \/ \E b \in Bodies : RouterPost(b)
  \/ RouterGet
  \/ RouterGetArchived
  \/ \E id \in IdInputs, b \in Bodies : RouterPatch(id, b)
  \/ \E id \in IdInputs : RouterDelete(id)

SpecRouter == InitRouter /\ [][NextRouter]_vars
----------------------------------------------------------------------------
(* Properties *)

Range(s) == {s[i] : i \in 1..Len(s)}

Notes == Range(store)

\* A request was answered in this step.
Answered(o) == served' = served + 1 /\ op' = o

\* What GET /notes and GET /notes/archived select in the current state.
Listed(v) ==
  Range(IF app = "index" THEN FindArchived(store, v) ELSE FindIsArchived(store, v))

InActive(n) == n \in Listed("false")

InArchived(n) == n \in Listed("true")

ArchivedIs(n, v) == Has(n, "archived") /\ n.archived = v

\* Content that is missing, empty, or empty once trimmed.
EmptyContent(b) == ~Has(b, "content") \/ Trim(b.content) = <<>>

InvalidFields(b) ==
  \/ Has(b, "content") /\ Trim(b.content) = <<>>
  \/ Has(b, "category") /\ b.category \notin Categories

\* C1: every create request whose content is missing, empty or whitespace only
\* is answered 400 and adds no note to the store.
C1_EmptyContentAnswers400 ==
  [][Answered("create") =>
       \A b \in Bodies :
         (PostNotes(b) \/ RouterPost(b)) /\ EmptyContent(b) /\ ~StoreFails
           => status' = 400 /\ store' = store]_vars

\* C2: every stored note is in exactly one of the two listings: in the archived
\* one when its archived flag is true, in the active one otherwise.
C2_ExactlyOneListing ==
  \A n \in Notes :
    /\ InActive(n) # InArchived(n)
    /\ InArchived(n) <=> ArchivedIs(n, "true")

\* C3: unless the store fails, a delete of an id that is not in the store is
\* answered 404 and changes nothing, a delete of a stored id is answered 200 and
\* removes that note, and a delete of an id deleted before is answered 404.
C3_DeleteUnknownAnswers404 ==
  [][Answered("delete") =>
       \A id \in IdInputs :
         (DeleteNote(id) \/ RouterDelete(id)) /\ ~StoreFails
           => /\ id \in Ids(store) => status' = 200 /\ store' = Remove(store, id)
              /\ id \notin Ids(store) => status' = 404 /\ store' = store
              /\ id \in deleted => status' = 404]_vars

\* C4: setArchived with true or false on a stored note is answered 200 and
\* changes the archived flag of that note (and its updatedAt timestamp) and
\* nothing else in the store; after archive followed by unarchive the note has
\* archived = false and the id, title, content, category and createdAt it had.
ArchiveStepOnlyFlag ==
  Answered("archive") =>
    \A id \in IdInputs, b \in ArchiveBodies :
      /\ PutArchive(id, b)
      /\ id \in Ids(store)
      /\ ~StoreFails
      /\ Has(b, "archived") /\ b.archived \in {"true", "false"}
      => /\ status' = 200
         /\ Len(store') = Len(store)
         /\ \A i \in 1..Len(store) :
              store'[i] = IF store[i].id = id
                            THEN [store[i] EXCEPT !.archived = b.archived,
                                                  !.updatedAt = Now]
                            ELSE store[i]

RoundTripRestores ==
  Len(hist) = 2 =>
    /\ status = 200
    /\ hist[1].id \in Ids(store)
    /\ LET n == store[FindById(store, hist[1].id)]
       IN  /\ n.archived = "false"
           /\ \A k \in {"id", "title", "content", "category", "createdAt"} :
                n[k] = hist[1][k]

\* C4: every archive step changes the flag only, and every archive followed
\* by unarchive restores the note.
C4_ArchiveRoundTrip == [][ArchiveStepOnlyFlag]_vars /\ []RoundTripRestores

\* C4 witness: a note with trimmed content b and category Work has been
\* archived and then unarchived.
C4_Witness ==
  /\ Len(hist) = 2
  /\ op = "archive" /\ status = 200
  /\ hist[1].archived = "false" /\ hist[2].archived = "true"
  /\ hist[1].content = <<"b">> /\ hist[1].category = "Work"
  /\ resp[1].content = <<"b">> /\ resp[1].category = "Work"
  /\ resp[1].archived = "false"

\* C5: a listing answered 200 holds exactly the stored notes with the matching
\* archived value, each once, newest first.
C5_ListingNewestFirst ==
  op \in {"listActive", "listArchived"} /\ status = 200 =>
    LET v == IF op = "listActive" THEN "false" ELSE "true"
        want == {n \in Notes : ArchivedIs(n, v)}
    IN  /\ Range(resp) = want
        /\ Len(resp) = Cardinality(want)
        /\ \A i \in 1..Len(resp), j \in 1..Len(resp) :
             i < j => resp[i].createdAt >= resp[j].createdAt

\* C6: every stored note has non-empty content and a category of the
\* enumerated set.
C6_StoredNotesValid ==
  \A n \in Notes :
    /\ Has(n, "content") /\ n.content # <<>>
    /\ Has(n, "category") /\ n.category \in Categories

\* C7: unless the store fails, an update of an id that is not in the store is
\* answered 404, an update with invalid fields is answered 400, both leave the
\* store unchanged, and 500 is answered only when the store fails.
C7_UpdateErrorTaxonomy ==
  [][Answered("update") =>
       \A id \in IdInputs, b \in Bodies :
         (PutNote(id, b) \/ RouterPatch(id, b))
           => /\ status' = 500 => StoreFails
              /\ ~StoreFails /\ id \notin Ids(store) /\ ~InvalidFields(b)
                   => status' = 404 /\ store' = store
              /\ ~StoreFails /\ id \in Ids(store) /\ InvalidFields(b)
                   => status' = 400 /\ store' = store
              /\ ~StoreFails /\ id \notin Ids(store) /\ InvalidFields(b)
                   => status' \in {400, 404} /\ store' = store]_vars

\* C8: unless the store fails, a create request with non-empty content, no
\* title and no category is answered 201 with a note of empty title, category
\* Personal, archived false and the submitted content, and the store then holds
\* that note.
C8_CreateDefaults ==
  [][Answered("create") =>
       \A b \in Bodies :
         /\ PostNotes(b) \/ RouterPost(b)
         /\ Has(b, "content") /\ b.content # <<>>
         /\ ~Has(b, "title") /\ ~Has(b, "category")
         /\ ~StoreFails
         => /\ status' = 201
            /\ Len(resp') = 1
            /\ Has(resp'[1], "title") /\ resp'[1].title = <<>>
            /\ Has(resp'[1], "category") /\ resp'[1].category = "Personal"
            /\ ArchivedIs(resp'[1], "false")
            /\ Has(resp'[1], "content") /\ resp'[1].content = b.content
            /\ store' = Append(store, resp'[1])]_vars

\* C9: an update answered 200 returns the addressed note as stored; every field
\* of that note that the request body does not carry (the id and the archived
\* flag among them) keeps its value, updatedAt apart, and no other note changes.
UpdateStepFrame ==
  Answered("update") /\ status' = 200 =>
    /\ Len(resp') = 1
    /\ resp'[1].id \in Ids(store)
    /\ Len(store') = Len(store)
    /\ LET i == FindById(store, resp'[1].id)
       IN  /\ store'[i] = resp'[1]
           /\ \A j \in 1..Len(store) : j # i => store'[j] = store[j]
           /\ \A k \in (DOMAIN store[i] \cup DOMAIN store'[i]) \ (DOMAIN req' \cup {"updatedAt"}) :
                /\ k \in DOMAIN store[i] \cap DOMAIN store'[i]
                /\ store'[i][k] = store[i][k]

\* C9: every successful update step applies the provided fields only.
C9_UpdateAppliesProvidedFieldsOnly == [][UpdateStepFrame]_vars

\* C9 witness: an update that carries only a title succeeded on a note whose
\* content, category and archived flag differ from the defaults.
C9_Witness ==
  /\ app = "index"
  /\ op = "update" /\ status = 200
  /\ DOMAIN req = {"title"}
  /\ resp[1].title = <<"t">>
  /\ resp[1].content = <<"b">>
  /\ resp[1].category = "Work"
  /\ resp[1].archived = "true"

\* C10: at every point of startup and request handling, a note whose create
\* was answered 201 and whose delete has not been answered 200 is in the store.
\* (That it is also in one of the two listings is what C2 states.)
C10_NotesLeaveOnlyByDelete == \A id \in created \ deleted : id \in Ids(store)
====
